---- MODULE Spec2Model ----
(***************************************************************************)
(* A model of iiif_stitcher.py: the URL parser, the manifest resolver, the *)
(* tile-grid stitcher and the script's main block.                         *)
(*                                                                         *)
(* Strings are sequences of tokens.  A path is a sequence over "/",        *)
(* "items" (the literal text items) and "a" (any other text); a query is a *)
(* sequence of key/value pairs.  An image is a function from pixel         *)
(* coordinates to pixel values; a pixel value <<k, dx, dy>> is pixel       *)
(* (dx, dy) of the image decoded from the response to the k-th tile        *)
(* request, and BLANK is the fill Image.new gives.                         *)
(***************************************************************************)
EXTENDS Integers, Sequences, FiniteSets, TLC

VARIABLES
    entry,            \* "main": the script is run; "call": the stitcher is called directly
    pc,               \* position in the program
    input_url,        \* the URL after urlparse: [path, query]
    item_id,          \* result of get_params_from_url
    page_label,
    manifest_gets,    \* number of requests.get calls for the manifest
    width,            \* arguments of download_and_stitch_iiif_image
    height,
    tile_size,
    cols,             \* locals of download_and_stitch_iiif_image
    rows,
    row_idx,
    col_idx,
    stitched_image,   \* <<>> before Image.new, <<image>> after
    tile_gets,        \* the tile requests issued, in order, with their outcome
    stdout,           \* the lines printed
    files,            \* the images written to output_file, in order
    error             \* <<>>, or <<name>> of the exception that ended the run

vars == <<entry, pc, input_url, item_id, page_label, manifest_gets, width, height,
          tile_size, cols, rows, row_idx, col_idx, stitched_image, tile_gets,
          stdout, files, error>>

-----------------------------------------------------------------------------
(* Bounds of the model *)

MaxW == 4
MaxH == 4
MaxT == 3
MaxTiles == 4
MaxPathLen == 4
MaxQueryLen == 2
MaxCanvases == 2

(* Program constant *)
TILE_SIZE == 1024

-----------------------------------------------------------------------------
(* Helpers on integers and sequences *)

Min(a, b) == IF a <= b THEN a ELSE b

\* math.ceil(a / b) for integers a and b # 0
CeilDiv(a, b) == IF b > 0 THEN -((-a) \div b) ELSE -(a \div (-b))

\* range(n)
Range(n) == 0 .. (n - 1)

BLANK == <<0, 0, 0>>

\* Image.new('RGB', (w, h)): every pixel at the fill value
NewImage(w, h) == [size |-> <<w, h>>, px |-> [p \in Range(w) \X Range(h) |-> BLANK]]

\* The image decoded from the response to request k, of size (dw, dh)
TileImage(k, dw, dh) ==
    [size |-> <<dw, dh>>, px |-> [p \in Range(dw) \X Range(dh) |-> <<k, p[1], p[2]>>]]

\* Paste with the offset dropped: the tile lands at the origin
PasteAtOrigin(img, tile, x, y) ==
    [img EXCEPT !.px = [p \in DOMAIN img.px |->
        IF p \in DOMAIN tile.px THEN tile.px[p] ELSE img.px[p]]]

\* Image.paste(tile, (x, y)): the tile's pixels land at offset (x, y), clipped
\* to the image
Paste(img, tile, x, y) ==
    [img EXCEPT !.px = [p \in DOMAIN img.px |->
        IF <<p[1] - x, p[2] - y>> \in DOMAIN tile.px
        THEN tile.px[<<p[1] - x, p[2] - y>>]
        ELSE img.px[p]]]

-----------------------------------------------------------------------------
(* Strings as token sequences *)

\* s.find(sep): the lowest index at which sep occurs in s, 0 if none
Find(s, sep) ==
    LET hits == {i \in 1 .. (Len(s) - Len(sep) + 1) :
                    SubSeq(s, i, i + Len(sep) - 1) = sep}
    IN  IF hits = {} THEN 0 ELSE CHOOSE i \in hits : \A j \in hits : i <= j

\* s.split(sep): non-overlapping occurrences, left to right
RECURSIVE Split(_, _)
Split(s, sep) ==
    LET i == Find(s, sep)
    IN  IF i = 0 THEN <<s>>
        ELSE <<SubSeq(s, 1, i - 1)>> \o Split(SubSeq(s, i + Len(sep), Len(s)), sep)

RECURSIVE LStrip(_, _)
LStrip(s, ch) == IF s # <<>> /\ Head(s) = ch THEN LStrip(Tail(s), ch) ELSE s

RECURSIVE RStrip(_, _)
RStrip(s, ch) ==
    IF s # <<>> /\ s[Len(s)] = ch THEN RStrip(SubSeq(s, 1, Len(s) - 1), ch) ELSE s

\* s.strip(ch)
Strip(s, ch) == RStrip(LStrip(s, ch), ch)

\* parse_qs(query).get(key, [''])[0]: blank values are dropped by parse_qs,
\* the first remaining value of the key is taken, '' when there is none
QueryGet(query, key) ==
    LET kept == SelectSeq(query, LAMBDA kv : kv.value # "" /\ kv.key = key)
    IN  IF kept = <<>> THEN "" ELSE kept[1].value

ITEMS_SEP == <<"/", "items", "/">>

\* get_params_from_url: exc is <<>> on return, <<name>> when it raises
get_params_from_url(url) ==
    LET parts == Split(url.path, ITEMS_SEP)
        page_number == QueryGet(url.query, "page")
    IN  IF Len(parts) < 2
        THEN [exc |-> <<"ValueError">>, item_id |-> <<>>, page |-> ""]
        ELSE IF page_number = ""
        THEN [exc |-> <<"ValueError">>, item_id |-> <<>>, page |-> ""]
        ELSE [exc |-> <<>>, item_id |-> Strip(parts[2], "/"), page |-> page_number]

-----------------------------------------------------------------------------
(* Manifest resolution *)

\* requests.exceptions.RequestException and the subclasses requests.get and
\* raise_for_status raise
RequestExceptions == {"ConnectionError", "Timeout", "HTTPError"}

\* index of the first canvas of the document whose label is page, 0 if none
FirstMatch(canvases, page) ==
    LET hits == {i \in 1 .. Len(canvases) : canvases[i].label = page}
    IN  IF hits = {} THEN 0 ELSE CHOOSE i \in hits : \A j \in hits : i <= j

\* get_iiif_details_from_manifest on the response resp to the manifest request
get_iiif_details_from_manifest(resp, page) ==
    LET none(e) == [exc |-> <<e>>, id |-> <<>>, width |-> 0, height |-> 0]
        i == FirstMatch(resp.canvases, page)
        canvas == resp.canvases[i]
    IN  IF resp.kind \in RequestExceptions THEN none(resp.kind)
        ELSE IF resp.kind = "EmptySequences" THEN none("IndexError")
        ELSE IF i = 0 THEN none("ValueError")
        ELSE IF canvas.service_id = <<>> \/ canvas.service_id = << <<>> >>
        THEN none("KeyError")
        ELSE IF canvas.width = <<>> \/ canvas.height = <<>> THEN none("KeyError")
        ELSE LET segs == Split(canvas.service_id[1], <<"/">>)
             IN  [exc |-> <<>>, id |-> segs[Len(segs)],
                  width |-> canvas.width[1], height |-> canvas.height[1]]

\* the except clause of the main block
MainCatches(e) == e \in RequestExceptions \cup {"ValueError", "KeyError"}

\* where an exception e leaves the program
ExitPc(mode, e) == IF mode = "main" /\ MainCatches(e) THEN "fatal" ELSE "raised"

\* what the main block prints for an exception it catches
FatalLines(mode, e) ==
    IF mode = "main" /\ MainCatches(e) THEN << <<"FATAL ERROR", e>> >> ELSE <<>>

-----------------------------------------------------------------------------
(* The tile grid *)

\* x_start, y_start
TileX(col, T) == col * T
TileY(row, T) == row * T

\* tile_w without the clipping at the right edge
TileWUnclipped(col, W, T) == T

\* tile_w, tile_h
TileW(col, W, T) == Min(T, W - TileX(col, T))
TileH(row, H, T) == Min(T, H - TileY(row, T))

\* an except clause that misses timeouts
TileCatchesNoTimeout(kind) == kind \in {"ConnectionError", "HTTPError"}

\* the except clause of the tile loop
TileCatches(kind) == kind \in RequestExceptions

\* loops that stop after the first row
AfterCellOneRow(r, c, nrows, ncols) ==
    IF c + 1 < ncols THEN [pc |-> "loop", row |-> r, col |-> c + 1]
    ELSE [pc |-> "save", row |-> r, col |-> c]

\* the loop position after cell (r, c) of a grid of nrows x ncols
AfterCell(r, c, nrows, ncols) ==
    IF c + 1 < ncols THEN [pc |-> "loop", row |-> r, col |-> c + 1]
    ELSE IF r + 1 < nrows THEN [pc |-> "loop", row |-> r + 1, col |-> 0]
    ELSE [pc |-> "save", row |-> r, col |-> c]

\* the loop position on entering the two for loops: with no column the outer
\* loop still runs over every row and leaves row_idx at the last one
EnterLoops(nrows, ncols) ==
    IF nrows > 0 /\ ncols > 0 THEN [pc |-> "loop", row |-> 0, col |-> 0]
    ELSE IF nrows > 0 THEN [pc |-> "save", row |-> nrows - 1, col |-> 0]
    ELSE [pc |-> "save", row |-> 0, col |-> 0]

-----------------------------------------------------------------------------
(* Inputs *)

\* all sequences over S of length at most n
SeqsUpTo(S, n) == UNION {[1 .. k -> S] : k \in 0 .. n}

PathTokens == {"/", "items", "a"}

\* the path of a URL with a host is empty or starts with "/"
Paths == {<<>>} \cup {<<"/">> \o p : p \in SeqsUpTo(PathTokens, MaxPathLen - 1)}

QueryPairs == [key : {"page", "q"}, value : {"", "41"}]

Urls == [path : Paths, query : SeqsUpTo(QueryPairs, MaxQueryLen)]

SERVICE_URL == <<"s", "/", "img">>

\* page entries: complete, or lacking one of the fields the resolver reads
Canvases ==
    {c \in [label : {"41", "7"}, service_id : {<<>>, <<SERVICE_URL>>},
            width : {<<>>, <<2>>}, height : {<<>>, <<1>>}] :
        /\ Cardinality({f \in {"service_id", "width", "height"} : c[f] = <<>>}) <= 1
        /\ c.label = "7" => c.width # <<>> /\ c.height # <<>>}

ManifestResponses ==
    [kind : RequestExceptions \cup {"EmptySequences"}, canvases : {<<>>}]
    \cup [kind : {"document"}, canvases : SeqsUpTo(Canvases, MaxCanvases)]

\* the sizes a tile response may decode to when (w, h) was requested
DecodedSizes(w, h) ==
    {<<w, h>>, <<w + 1, h>>, <<w, h + 1>>}
    \cup (IF w > 1 THEN {<<w - 1, h>>} ELSE {})
    \cup (IF h > 1 THEN {<<w, h - 1>>} ELSE {})

TileResponses(w, h) ==
    [kind : RequestExceptions \cup {"Undecodable"}, size : {<<0, 0>>}]
    \cup [kind : {"image"}, size : DecodedSizes(w, h)]

\* the arguments the stitcher is called with
StitchArgs ==
    {a \in [width : (-1 .. MaxW) \ {0}, height : (-1 .. MaxH) \ {0},
            tile_size : -1 .. MaxT] :
        (a.width > 0 /\ a.height > 0 /\ a.tile_size > 0)
            => CeilDiv(a.width, a.tile_size) * CeilDiv(a.height, a.tile_size) <= MaxTiles}

-----------------------------------------------------------------------------
(* The program *)

InitCommon ==
    /\ item_id = <<>>
    /\ page_label = ""
    /\ manifest_gets = <<>>
    /\ cols = 0
    /\ rows = 0
    /\ row_idx = 0
    /\ col_idx = 0
    /\ stitched_image = <<>>
    /\ tile_gets = <<>>
    /\ stdout = <<>>
    /\ files = <<>>
    /\ error = <<>>

\* the script is run on some page URL
InitMain ==
    /\ entry = "main"
    /\ pc = "parse"
    /\ input_url \in Urls
    /\ width = 0
    /\ height = 0
    /\ tile_size = 0
    /\ InitCommon

\* download_and_stitch_iiif_image is called directly
InitCall ==
    /\ entry = "call"
    /\ pc = "stitch"
    /\ input_url = [path |-> <<>>, query |-> <<>>]
    /\ \E a \in StitchArgs :
            /\ width = a.width
            /\ height = a.height
            /\ tile_size = a.tile_size
    /\ InitCommon

\* main block: get_params_from_url(input_url)
ParseUrl ==
    /\ pc = "parse"
    /\ LET r == get_params_from_url(input_url)
       IN  IF r.exc # <<>>
           THEN /\ pc' = ExitPc(entry, r.exc[1])
                /\ error' = r.exc
                /\ stdout' = stdout \o FatalLines(entry, r.exc[1])
                /\ UNCHANGED <<item_id, page_label>>
           ELSE /\ pc' = "resolve"
                /\ item_id' = r.item_id
                /\ page_label' = r.page
                /\ stdout' = Append(stdout, <<"Item ID", r.item_id, r.page>>)
                /\ UNCHANGED error
    /\ UNCHANGED <<entry, input_url, manifest_gets, width, height, tile_size, cols,
                   rows, row_idx, col_idx, stitched_image, tile_gets, files>>

\* main block: get_iiif_details_from_manifest(item_id, page_label), then the
\* call of download_and_stitch_iiif_image with TILE_SIZE
ResolveManifest ==
    /\ pc = "resolve"
    /\ \E resp \in ManifestResponses :
        LET r == get_iiif_details_from_manifest(resp, page_label)
        IN  /\ manifest_gets' = Append(manifest_gets, [item_id |-> item_id, resp |-> resp])
            /\ IF r.exc # <<>>
               THEN /\ pc' = ExitPc(entry, r.exc[1])
                    /\ error' = r.exc
                    /\ stdout' = stdout \o << <<"Fetching Manifest">> >>
                                        \o FatalLines(entry, r.exc[1])
                    /\ UNCHANGED <<width, height, tile_size>>
               ELSE /\ pc' = "stitch"
                    /\ width' = r.width
                    /\ height' = r.height
                    /\ tile_size' = TILE_SIZE
                    /\ stdout' = stdout \o << <<"Fetching Manifest">>,
                                              <<"Resolved", r.id, r.width, r.height>> >>
                    /\ UNCHANGED error
    /\ UNCHANGED <<entry, input_url, item_id, page_label, cols, rows, row_idx, col_idx,
                   stitched_image, tile_gets, files>>

\* download_and_stitch_iiif_image up to the first loop iteration: the grid
\* computation and Image.new
BeginStitch ==
    /\ pc = "stitch"
    /\ IF tile_size = 0
       THEN \* width / tile_size raises ZeroDivisionError
            /\ pc' = ExitPc(entry, "ZeroDivisionError")
            /\ error' = <<"ZeroDivisionError">>
            /\ stdout' = stdout \o << <<"Stitching will begin">> >>
                                \o FatalLines(entry, "ZeroDivisionError")
            /\ UNCHANGED <<cols, rows, row_idx, col_idx, stitched_image>>
       ELSE LET c == CeilDiv(width, tile_size)
                r == CeilDiv(height, tile_size)
                lines == << <<"Stitching will begin">>,
                            <<"Image dimensions", width, height>>,
                            <<"Tiling grid", c, r, c * r>> >>
                at == EnterLoops(r, c)
            IN  /\ cols' = c
                /\ rows' = r
                /\ IF width < 0 \/ height < 0
                   THEN \* Image.new raises ValueError for a negative size
                        /\ pc' = ExitPc(entry, "ValueError")
                        /\ error' = <<"ValueError">>
                        /\ stdout' = stdout \o lines \o FatalLines(entry, "ValueError")
                        /\ UNCHANGED <<row_idx, col_idx, stitched_image>>
                   ELSE /\ stitched_image' = <<NewImage(width, height)>>
                        /\ pc' = at.pc
                        /\ row_idx' = at.row
                        /\ col_idx' = at.col
                        /\ stdout' = stdout \o lines
                        /\ UNCHANGED error
    /\ UNCHANGED <<entry, input_url, item_id, page_label, manifest_gets, width, height,
                   tile_size, tile_gets, files>>

\* one iteration of the loop body: request the tile of cell (row_idx, col_idx),
\* paste it or handle the exception, and move to the next cell
FetchTile ==
    /\ pc = "loop"
    /\ LET x == TileX(col_idx, tile_size)
           y == TileY(row_idx, tile_size)
           w == TileW(col_idx, width, tile_size)
           h == TileH(row_idx, height, tile_size)
           k == Len(tile_gets) + 1
           progress == <<"Downloading tile", row_idx * cols + col_idx + 1, cols * rows>>
           next == AfterCell(row_idx, col_idx, rows, cols)
       IN  \E resp \in TileResponses(w, h) :
            /\ tile_gets' = Append(tile_gets,
                    [row |-> row_idx, col |-> col_idx, region |-> <<x, y, w, h>>,
                     size |-> w, resp |-> resp])
            /\ IF resp.kind = "image" \/ TileCatches(resp.kind)
               THEN /\ stitched_image' =
                        IF resp.kind = "image"
                        THEN <<Paste(stitched_image[1],
                                     TileImage(k, resp.size[1], resp.size[2]), x, y)>>
                        ELSE stitched_image
                    /\ stdout' =
                        IF resp.kind = "image"
                        THEN Append(stdout, progress)
                        ELSE stdout \o <<progress, <<"Error downloading", k>> >>
                    /\ pc' = next.pc
                    /\ row_idx' = next.row
                    /\ col_idx' = next.col
                    /\ UNCHANGED error
               ELSE \* the exception leaves the function
                    LET e == IF resp.kind = "Undecodable"
                             THEN "UnidentifiedImageError" ELSE resp.kind
                    IN  /\ pc' = ExitPc(entry, e)
                        /\ error' = <<e>>
                        /\ stdout' = stdout \o <<progress>> \o FatalLines(entry, e)
                        /\ UNCHANGED <<row_idx, col_idx, stitched_image>>
    /\ UNCHANGED <<entry, input_url, item_id, page_label, manifest_gets, width, height,
                   tile_size, cols, rows, files>>

\* after the loops: stitched_image.save(output_file)
SaveImage ==
    /\ pc = "save"
    /\ files' = Append(files, stitched_image[1])
    /\ stdout' = stdout \o << <<"Stitching complete">>, <<"Success">> >>
    /\ pc' = "done"
    /\ UNCHANGED <<entry, input_url, item_id, page_label, manifest_gets, width, height,
                   tile_size, cols, rows, row_idx, col_idx, stitched_image, tile_gets,
                   error>>

\* the stitcher called directly
Next == BeginStitch \/ FetchTile \/ SaveImage

Spec == InitCall /\ [][Next]_vars

\* the script
NextMain == ParseUrl \/ ResolveManifest \/ BeginStitch \/ FetchTile \/ SaveImage

SpecMain == InitMain /\ [][NextMain]_vars

-----------------------------------------------------------------------------
(* Vocabulary of the properties *)

ValidArgs == width > 0 /\ height > 0 /\ tile_size > 0

\* ceil(a / b) for positive a and b
CeilPos(a, b) == (a + b - 1) \div b

\* the pixels of the rectangle <<x, y, w, h>>
RectPixels(r) == {p \in (r[1] .. (r[1] + r[3] - 1)) \X (r[2] .. (r[2] + r[4] - 1)) : TRUE}

Pixels == Range(width) \X Range(height)

Gets == 1 .. Len(tile_gets)

\* the k-th tile request failed at the transport level
TransportFailed(k) == tile_gets[k].resp.kind \in {"ConnectionError", "Timeout", "HTTPError"}

\* the k-th tile request returned an image of the requested size
Succeeded(k) ==
    /\ tile_gets[k].resp.kind = "image"
    /\ tile_gets[k].resp.size = <<tile_gets[k].region[3], tile_gets[k].region[4]>>

\* the k-th tile request returned a body that is no image, or an image of
\* another size than requested
DecodeFailed(k) == ~TransportFailed(k) /\ ~Succeeded(k)

\* the cells the two loops range over
Cells == Range(rows) \X Range(cols)

CellsDone == {<<tile_gets[k].row, tile_gets[k].col>> : k \in Gets}

-----------------------------------------------------------------------------
(* C1: for positive W, H and T, every requested rectangle has x = col*T,   *)
(* y = row*T, 1 <= w <= T, 1 <= h <= T, x + w <= W and y + h <= H; no      *)
(* pixel lies in two requested rectangles; and once the loops are over     *)
(* every pixel of [0,W) x [0,H) lies in exactly one requested rectangle.   *)
C1_Partition ==
    ValidArgs =>
        /\ \A k \in Gets :
            LET g == tile_gets[k]
                r == g.region
            IN  /\ r[1] = g.col * tile_size /\ r[2] = g.row * tile_size
                /\ 1 <= r[3] /\ r[3] <= tile_size
                /\ 1 <= r[4] /\ r[4] <= tile_size
                /\ r[1] >= 0 /\ r[1] + r[3] <= width
                /\ r[2] >= 0 /\ r[2] + r[4] <= height
        /\ \A p \in Pixels :
            LET n == Cardinality({k \in Gets : p \in RectPixels(tile_gets[k].region)})
            IN  /\ n <= 1
                /\ pc \in {"save", "done"} => n = 1

C1_Witness ==
    /\ pc = "done" /\ ValidArgs
    /\ cols = 2 /\ rows = 2
    /\ width % tile_size # 0 /\ height % tile_size # 0
    /\ tile_gets[4].region = <<tile_size, tile_size, width - tile_size, height - tile_size>>

(* C2: with positive W, H and T, when every tile request either fails at   *)
(* the transport level (connection error, timeout, error status) or        *)
(* succeeds, the run is never aborted, and when it is done every cell has  *)
(* been requested, one image of size (W, H) has been written, the          *)
(* rectangle of every failed tile is at the fill value and the rectangle   *)
(* of every successful tile holds that tile's pixels at offset (x, y).     *)
(* In any run, a tile request that failed at the transport level has not   *)
(* ended the run, and until the run is done a next step is possible.       *)
C2_TransportFailuresNonFatal ==
    /\ (tile_gets # <<>> /\ TransportFailed(Len(tile_gets))) =>
            error = <<>> /\ pc \in {"loop", "save", "done"}
    /\ pc \in {"stitch", "loop", "save"} => ENABLED Next
    /\ (ValidArgs /\ \A k \in Gets : TransportFailed(k) \/ Succeeded(k)) =>
        /\ error = <<>>
        /\ pc \in {"stitch", "loop", "save", "done"}
        /\ pc \in {"save", "done"} =>
                Len(tile_gets) = CeilPos(width, tile_size) * CeilPos(height, tile_size)
        /\ pc = "done" =>
            /\ Len(files) = 1
            /\ files[1].size = <<width, height>>
            /\ DOMAIN files[1].px = Pixels
            /\ \A k \in Gets : \A p \in RectPixels(tile_gets[k].region) :
                    files[1].px[p] =
                        IF TransportFailed(k) THEN BLANK
                        ELSE <<k, p[1] - tile_gets[k].region[1],
                                  p[2] - tile_gets[k].region[2]>>

C2_Witness ==
    /\ pc = "done" /\ ValidArgs
    /\ Len(tile_gets) = 4
    /\ \A k \in Gets : TransportFailed(k) \/ Succeeded(k)
    /\ tile_gets[1].resp.kind = "Timeout"
    /\ tile_gets[2].resp.kind = "HTTPError"
    /\ tile_gets[3].resp.kind = "ConnectionError"
    /\ Succeeded(4)
    /\ Len(files) = 1

(* C3: a tile response that is no image, or an image of another size than  *)
(* requested, is confined to its tile: the run is not aborted, nothing of  *)
(* that response is copied to the canvas, its rectangle stays at the fill  *)
(* value, and a finished run has written the output.                       *)
C3_DecodeFailureConfined ==
    \A k \in Gets : DecodeFailed(k) =>
        /\ error = <<>>
        /\ pc \in {"loop", "save", "done"}
        /\ \A p \in DOMAIN stitched_image[1].px : stitched_image[1].px[p][1] # k
        /\ \A p \in RectPixels(tile_gets[k].region) \cap DOMAIN stitched_image[1].px :
                stitched_image[1].px[p] = BLANK
        /\ pc = "done" => Len(files) = 1

(* C4: tile_size <= 0, width <= 0 or height <= 0 is rejected with an error *)
(* before the canvas is allocated, a tile is requested or a file written.  *)
C4_InvalidParametersRejected ==
    (~ValidArgs /\ pc # "stitch") =>
        /\ error # <<>>
        /\ stitched_image = <<>>
        /\ tile_gets = <<>>
        /\ files = <<>>

(* C5: the output is written at most once, only when every cell of the     *)
(* loops has been requested, and once it is written no tile is requested   *)
(* and nothing is written again.                                           *)
C5_WriteOnceAfterAllTiles ==
    /\ [](/\ Len(files) <= 1
          /\ files # <<>> =>
                /\ pc = "done"
                /\ CellsDone = Cells
                /\ Len(tile_gets) = Cardinality(Cells)
                /\ ValidArgs =>
                     Len(tile_gets) = CeilPos(width, tile_size) * CeilPos(height, tile_size))
    /\ [][files # <<>> => UNCHANGED <<tile_gets, files>>]_vars
    /\ [][tile_gets' # tile_gets => files = <<>> /\ files' = <<>>]_vars

C5_Witness ==
    /\ pc = "done" /\ Len(files) = 1
    /\ Len(tile_gets) = 4 /\ rows = 2
    /\ TransportFailed(2) /\ Succeeded(4)

-----------------------------------------------------------------------------
(* Properties of the script *)

\* the path holds the separator /items/
HasItemsSeparator(path) ==
    \E i \in 1 .. Len(path) - 2 :
        path[i] = "/" /\ path[i + 1] = "items" /\ path[i + 2] = "/"

\* the path has no text but slashes after its first /items/
NoItemId(path) ==
    \/ ~HasItemsSeparator(path)
    \/ LET i == CHOOSE j \in 1 .. Len(path) - 2 :
                    /\ SubSeq(path, j, j + 2) = <<"/", "items", "/">>
                    /\ \A l \in 1 .. j - 1 : SubSeq(path, l, l + 2) # <<"/", "items", "/">>
       IN  \A l \in i + 3 .. Len(path) : path[l] = "/"

\* the query has no page parameter with a value
NoPage(query) == \A i \in 1 .. Len(query) : query[i].key = "page" => query[i].value = ""

\* the response to the manifest request cannot be resolved for the page
\* label: a transport failure, no page entry list, no entry with the label,
\* or a field missing from the first entry with the label
Unresolvable(resp, page) ==
    \/ resp.kind # "document"
    \/ \A i \in 1 .. Len(resp.canvases) : resp.canvases[i].label # page
    \/ \E i \in 1 .. Len(resp.canvases) :
        /\ resp.canvases[i].label = page
        /\ \A j \in 1 .. i - 1 : resp.canvases[j].label # page
        /\ \/ resp.canvases[i].service_id = <<>>
           \/ resp.canvases[i].width = <<>>
           \/ resp.canvases[i].height = <<>>

(* C6: when manifest resolution fails (the URL is malformed: it has no     *)
(* item identifier after /items/ or no page value; or the manifest request *)
(* fails, no page entry has the requested label, or the matched entry      *)
(* lacks a field), the run is aborted before any tiling work: no tile is   *)
(* requested, no file is written and the run does not finish normally.     *)
C6_ResolutionFailureIsFatal ==
    LET malformed == NoItemId(input_url.path) \/ NoPage(input_url.query)
        failed == \/ malformed
                  \/ /\ manifest_gets # <<>>
                     /\ Unresolvable(manifest_gets[1].resp, page_label)
    IN  failed =>
            /\ tile_gets = <<>>
            /\ files = <<>>
            /\ pc # "done"

(* C7: a page URL without a non-empty item identifier after /items/, or    *)
(* without a non-empty page parameter, is rejected with an error and no    *)
(* manifest request is made.                                               *)
C7_MalformedUrlRejected ==
    (NoItemId(input_url.path) \/ NoPage(input_url.query)) =>
        /\ manifest_gets = <<>>
        /\ pc # "parse" => error = <<"ValueError">>

(* C8: with positive W, H and T, when every tile request of a finished run *)
(* succeeded, the image written has size (W, H) and none of its pixels is  *)
(* at the fill value: each holds the pixel a tile blit put there.          *)
C8_NoBlankPixels ==
    (pc = "done" /\ ValidArgs /\ \A k \in Gets : Succeeded(k)) =>
        /\ Len(files) = 1
        /\ files[1].size = <<width, height>>
        /\ DOMAIN files[1].px = Pixels
        /\ \A p \in Pixels :
            /\ files[1].px[p] # BLANK
            /\ files[1].px[p] =
                    <<(p[2] \div tile_size) * CeilPos(width, tile_size)
                          + (p[1] \div tile_size) + 1,
                      p[1] % tile_size, p[2] % tile_size>>

C8_Witness ==
    /\ pc = "done" /\ ValidArgs
    /\ Len(tile_gets) = 4 /\ cols = 2
    /\ width % tile_size # 0
    /\ \A k \in Gets : Succeeded(k)
    /\ \A p \in Pixels : files[1].px[p] # BLANK

(* C9: when all tile requests are processed the run prints a summary with  *)
(* the number of succeeded and of failed tiles; the two add up to          *)
(* rows*columns and the failed count is the number of tiles whose fetch or *)
(* decode failed.                                                          *)
C9_SummaryReported ==
    (pc = "done" /\ ValidArgs) =>
        \E i \in 1 .. Len(stdout) :
            /\ stdout[i][1] \in {"Stitching complete", "Success"}
            /\ Len(stdout[i]) >= 3
            /\ stdout[i][2] + stdout[i][3] = rows * cols
            /\ stdout[i][3] = Cardinality({k \in Gets : ~Succeeded(k)})

(* C10: for positive W, H and T a run requests exactly                     *)
(* ceil(W/T) * ceil(H/T) tiles, one per cell, in row-major order, whatever *)
(* fails, and the progress index runs 1, 2, ..., rows*columns; for         *)
(* W = 3184, H = 4640, T = 1024 the grid is 4 columns by 5 rows.           *)
C10_ExactlyOneFetchPerCell ==
    /\ CeilDiv(3184, 1024) = 4 /\ CeilDiv(4640, 1024) = 5
    /\ (ValidArgs /\ pc \notin {"stitch", "loop"}) =>
        /\ Len(tile_gets) = CeilPos(width, tile_size) * CeilPos(height, tile_size)
        /\ \A k \in Gets :
            /\ tile_gets[k].row = (k - 1) \div CeilPos(width, tile_size)
            /\ tile_gets[k].col = (k - 1) % CeilPos(width, tile_size)
        /\ LET progress == SelectSeq(stdout, LAMBDA l : l[1] = "Downloading tile")
           IN  /\ Len(progress) = Len(tile_gets)
               /\ \A k \in 1 .. Len(progress) : progress[k][2] = k

====
